---- MODULE Spec2Model ----
(***************************************************************************)
(* Model of iss_next_pass.py: one run of main(), from the parsed command   *)
(* line to the printed report.                                             *)
(*                                                                         *)
(* Time.  A skyfield Time is an integer number of ticks; a Python datetime *)
(* is the normalised pair [days, secs] with 0 <= secs < DayLen, exactly as *)
(* datetime/timedelta keep their fields; utc_datetime, ts.utc, datetime    *)
(* arithmetic and total_seconds convert between the two.  Event times are  *)
(* taken on the datetime grid (one tick = one datetime resolution unit).   *)
(*                                                                         *)
(* Environment.  What the network services and the skyfield library hand   *)
(* back (location, TLE lines, events, illumination, sun altitude) is drawn *)
(* from small sets inside the action that asks for it.                     *)
(***************************************************************************)
EXTENDS Integers, Sequences, FiniteSets

VARIABLES
    pc,                  \* position of main(): "main","located","tle","searched","done","exit"
    lat, lon,            \* main's lat, lon (l.125/127)
    twilight_threshold,  \* main's twilight_threshold (l.128)
    tle,                 \* <<line1, line2>> returned by get_iss_tle (l.52)
    t0,                  \* ts.now() taken by next_visible_pass (l.75), <<>> before
    events,              \* zip(t, events) returned by find_events (l.96)
    risetime, duration,  \* the pair returned by next_visible_pass; <<>> is None
    visLog,              \* the calls of is_visible made by the search
    out                  \* what the run printed last: "none", "pass", "nopass" or an error message

vars == <<pc, lat, lon, twilight_threshold, tle, t0, events, risetime, duration, visLog, out>>

(* ------------------------------ bounds -------------------------------- *)
DayLen == 2          \* ticks in one day
MaxEvents == 3       \* longest event list find_events hands back

(* -------------------------- program constants ------------------------- *)
RISE == 0            \* event code tested at l.102
SET == 2             \* event code tested at l.109
LookAheadDays == 2   \* timedelta(days=2) at l.76

None == <<>>
Some(x) == <<x>>

(* ------------------------- sample input values ------------------------ *)
\* --lat/--lon values and geolocation answers: in range, latitude out of
\* range, longitude out of range.
Locations == { <<51, 0>>, <<95, 0>>, <<51, 200>> }
\* --twilight values.
Thresholds == { -18, -17 }
\* ts.now() samples.
NowSamples == { 0, 1 }
\* What the TLE service may put in 'line1'/'line2': absent key (None), empty
\* string, a truncated line, a full line with a corrupted checksum, a valid line.
TlePairs == { <<"None", "valid">>, <<"valid", "">>, <<"truncated", "valid">>,
              <<"valid", "badchecksum">>, <<"valid", "valid">> }
EventKinds == 0..2

(* ----------------------- datetime / Time conversions ------------------ *)
\* Time.utc_datetime(): ticks -> datetime.
utc_datetime(t) == [days |-> t \div DayLen, secs |-> t % DayLen]

\* timedelta(days=d).
timedelta(d) == [days |-> d, secs |-> 0]

\* datetime + timedelta, normalised.
DtAdd(dt, td) ==
    [days |-> dt.days + td.days + ((dt.secs + td.secs) \div DayLen),
     secs |-> (dt.secs + td.secs) % DayLen]

\* datetime - datetime -> timedelta, normalised (secs never negative).
DtSub(a, b) ==
    [days |-> a.days - b.days + ((a.secs - b.secs) \div DayLen),
     secs |-> (a.secs - b.secs) % DayLen]

\* timedelta.total_seconds().
total_seconds(td) == td.days * DayLen + td.secs

\* ts.utc(datetime): datetime -> ticks.
ts_utc(dt) == dt.days * DayLen + dt.secs

\* Variant: the window is one day longer than the 48 hours.
SearchEnd_Longer(now) == ts_utc(DtAdd(utc_datetime(now), timedelta(LookAheadDays + 1)))

\* t1 of next_visible_pass.
SearchEnd(now) == ts_utc(DtAdd(utc_datetime(now), timedelta(LookAheadDays)))

(* ------------------------------ find_events --------------------------- *)
\* Illumination and sun altitude at a Rise instant.  The program samples the
\* sky at Rise instants only, so the other events carry one fixed sample.
RiseSkies == { [sunlit |-> TRUE,  sun_alt |-> -19],
               [sunlit |-> TRUE,  sun_alt |-> -18],
               [sunlit |-> FALSE, sun_alt |-> -19] }
OtherSky == [sunlit |-> TRUE, sun_alt |-> -19]

EventChoices(t) ==
    { [t |-> t, kind |-> RISE, sunlit |-> s.sunlit, sun_alt |-> s.sun_alt] : s \in RiseSkies }
    \cup
    { [t |-> t, kind |-> k, sunlit |-> OtherSky.sunlit, sun_alt |-> OtherSky.sun_alt] :
          k \in EventKinds \ {RISE} }

\* Every list of at most n events with strictly increasing times in lo..hi.
RECURSIVE EventSeqs(_, _, _)
EventSeqs(lo, hi, n) ==
    IF n = 0 \/ lo > hi THEN { <<>> }
    ELSE { <<>> } \cup
         UNION { { <<e>> \o s : e \in EventChoices(t), s \in EventSeqs(t + 1, hi, n - 1) } :
                 t \in lo..hi }

\* satellite.find_events(observer, t0, t1, altitude_degrees=10.0): the ordered
\* events of the window [from, to).
find_events(from, to) == EventSeqs(from, to - 1, MaxEvents)

(* ------------------------------- is_visible --------------------------- *)
\* Variant: the darkness test is not strict.
is_visible_le(e, threshold) ==
    IF ~e.sunlit THEN FALSE ELSE e.sun_alt <= threshold

\* Variant: the darkness test is reversed.
is_visible_ge(e, threshold) ==
    IF ~e.sunlit THEN FALSE ELSE e.sun_alt >= threshold

\* is_visible(t), with the sky at t carried by the event e.
is_visible(e, threshold) ==
    IF ~e.sunlit THEN FALSE ELSE e.sun_alt < threshold

(* --------------------------- the pairing loops ------------------------ *)
\* Variant: the event code is not tested.
IsRise_Any(e) == TRUE

\* 'if event == 0' of the outer loop.
IsRise(e) == e.kind = RISE

\* The inner loop from index j on: the first event after ev[i] that is a Set
\* gives the duration; None when the loop runs out.
RECURSIVE InnerLoop(_, _, _, _)
InnerLoop(ev, i, j, rt) ==
    IF j > Len(ev) THEN None
    ELSE IF ev[j].t > ev[i].t /\ ev[j].kind = SET
         THEN Some(total_seconds(DtSub(utc_datetime(ev[j].t), rt)))
         ELSE InnerLoop(ev, i, j + 1, rt)

\* Variant: the inner loop without 'tj > ti'.
RECURSIVE InnerLoop_NoOrder(_, _, _, _)
InnerLoop_NoOrder(ev, i, j, rt) ==
    IF j > Len(ev) THEN None
    ELSE IF ev[j].kind = SET
         THEN Some(total_seconds(DtSub(utc_datetime(ev[j].t), rt)))
         ELSE InnerLoop_NoOrder(ev, i, j + 1, rt)

\* Variant: the inner loop keeps the last Set instead of stopping at the first.
RECURSIVE InnerLoop_Last(_, _, _, _)
InnerLoop_Last(ev, i, j, rt) ==
    IF j < 1 THEN None
    ELSE IF ev[j].t > ev[i].t /\ ev[j].kind = SET
         THEN Some(total_seconds(DtSub(utc_datetime(ev[j].t), rt)))
         ELSE InnerLoop_Last(ev, i, j - 1, rt)

FindSet_NoOrder(ev, i, rt) == InnerLoop_NoOrder(ev, i, 1, rt)

FindSet_Last(ev, i, rt) == InnerLoop_Last(ev, i, Len(ev), rt)

\* 'for tj, eventj in zip(t, events)' started for the Rise ev[i].
FindSet(ev, i, rt) == InnerLoop(ev, i, 1, rt)

\* The outer loop from index i on.  acc carries the locals risetime and
\* duration and the is_visible calls made so far.  A visible Rise sets
\* risetime; if its inner loop finds a Set the function returns at once,
\* otherwise the outer loop goes on with risetime kept.
RECURSIVE OuterLoop(_, _, _, _)
OuterLoop(ev, threshold, i, acc) ==
    IF i > Len(ev) THEN acc
    ELSE IF ~IsRise(ev[i]) THEN OuterLoop(ev, threshold, i + 1, acc)
    ELSE LET v   == is_visible(ev[i], threshold)
             log == acc.log \cup { [t |-> ev[i].t, kind |-> ev[i].kind,
                                    sunlit |-> ev[i].sunlit, sun_alt |-> ev[i].sun_alt,
                                    threshold |-> threshold, result |-> v] }
         IN  IF ~v THEN OuterLoop(ev, threshold, i + 1, [acc EXCEPT !.log = log])
             ELSE LET rt == utc_datetime(ev[i].t)
                      d  == FindSet(ev, i, rt)
                  IN  IF d # None
                      THEN [risetime |-> Some(rt), duration |-> d, log |-> log]
                      ELSE OuterLoop(ev, threshold, i + 1,
                                     [risetime |-> Some(rt), duration |-> None, log |-> log])

\* Lines 98-113: the value next_visible_pass returns for an event list.
PassSearch(ev, threshold) ==
    OuterLoop(ev, threshold, 1, [risetime |-> None, duration |-> None, log |-> {}])

(* ------------------------------- the run ------------------------------ *)
Init ==
    /\ pc = "main"
    /\ lat = None /\ lon = None
    /\ twilight_threshold = None
    /\ tle = None
    /\ t0 = None
    /\ events = <<>>
    /\ risetime = None /\ duration = None
    /\ visLog = {}
    /\ out = "none"

\* print(message); sys.exit(1) of an except branch or a failed check.
Exit(message) ==
    /\ pc' = "exit"
    /\ out' = message

\* main, l.123-133, with --lat and --lon both given.
MainArgs ==
    /\ pc = "main"
    /\ \E loc \in Locations, th \in Thresholds :
          /\ lat' = Some(loc[1]) /\ lon' = Some(loc[2])
          /\ twilight_threshold' = Some(th)
    /\ pc' = "located"
    /\ UNCHANGED <<tle, t0, events, risetime, duration, visLog, out>>

\* main, l.126-133, with --lat or --lon missing: get_location answers.
MainGetLocation ==
    /\ pc = "main"
    /\ \E loc \in Locations, th \in Thresholds :
          /\ lat' = Some(loc[1]) /\ lon' = Some(loc[2])
          /\ twilight_threshold' = Some(th)
    /\ pc' = "located"
    /\ UNCHANGED <<tle, t0, events, risetime, duration, visLog, out>>

\* get_location, l.30-32: the request or the parsing raises.
MainGetLocationFails ==
    /\ pc = "main"
    /\ Exit("error_location")
    /\ UNCHANGED <<lat, lon, twilight_threshold, tle, t0, events, risetime, duration, visLog>>

\* Python truth value of a 'line1'/'line2' entry.
Truthy(line) == line \notin { "None", "" }

\* get_iss_tle, l.39-52: both lines present and non-empty.
GetIssTle ==
    /\ pc = "located"
    /\ \E resp \in TlePairs :
          /\ Truthy(resp[1]) /\ Truthy(resp[2])
          /\ tle' = resp
    /\ pc' = "tle"
    /\ UNCHANGED <<lat, lon, twilight_threshold, t0, events, risetime, duration, visLog, out>>

\* get_iss_tle, l.48-50: a line is missing or empty.
GetIssTleIncomplete ==
    /\ pc = "located"
    /\ \E resp \in TlePairs : ~(Truthy(resp[1]) /\ Truthy(resp[2]))
    /\ Exit("error_tle_incomplete")
    /\ UNCHANGED <<lat, lon, twilight_threshold, tle, t0, events, risetime, duration, visLog>>

\* get_iss_tle, l.53-55: the request raises.
GetIssTleFails ==
    /\ pc = "located"
    /\ Exit("error_tle")
    /\ UNCHANGED <<lat, lon, twilight_threshold, tle, t0, events, risetime, duration, visLog>>

\* EarthSatellite(tle[0], tle[1], ...): the program checks nothing about the
\* lines itself; valid lines build a satellite, for other lines the
\* constructor may raise or build one.
EarthSatellite(lines) ==
    IF lines[1] = "valid" /\ lines[2] = "valid" THEN { "built" } ELSE { "built", "raise" }

\* wgs84.latlon(lat, lon): builds an observer for any pair of angles.
wgs84_latlon(la, lo) == [latitude |-> la, longitude |-> lo]

\* next_visible_pass, l.71-113, returning normally.
NextVisiblePass ==
    /\ pc = "tle"
    /\ "built" \in EarthSatellite(tle)
    /\ \E now \in NowSamples :
          \E ev \in find_events(now, SearchEnd(now)) :
             LET observer == wgs84_latlon(lat[1], lon[1])
                 r == PassSearch(ev, twilight_threshold[1])
             IN  /\ t0' = Some(now)
                 /\ events' = ev
                 /\ risetime' = r.risetime
                 /\ duration' = r.duration
                 /\ visLog' = r.log
    /\ pc' = "searched"
    /\ UNCHANGED <<lat, lon, twilight_threshold, tle, out>>

\* next_visible_pass, l.114-116: EarthSatellite raises.
NextVisiblePassBadTle ==
    /\ pc = "tle"
    /\ "raise" \in EarthSatellite(tle)
    /\ Exit("error_pass")
    /\ UNCHANGED <<lat, lon, twilight_threshold, tle, t0, events, risetime, duration, visLog>>

\* next_visible_pass, l.78 and l.114-116: load('de421.bsp') raises.
NextVisiblePassNoEphemeris ==
    /\ pc = "tle"
    /\ Exit("error_pass")
    /\ UNCHANGED <<lat, lon, twilight_threshold, tle, t0, events, risetime, duration, visLog>>

\* Python truth value of risetime (None or a datetime) and of duration
\* (None or a float: 0.0 is false).
TruthyTime(x) == x # None
TruthyFloat(x) == x # None /\ x[1] # 0

\* main, l.138-142.
Report ==
    /\ pc = "searched"
    /\ out' = IF TruthyTime(risetime) /\ TruthyFloat(duration) THEN "pass" ELSE "nopass"
    /\ pc' = "done"
    /\ UNCHANGED <<lat, lon, twilight_threshold, tle, t0, events, risetime, duration, visLog>>

Next ==
    \/ MainArgs
    \/ MainGetLocation
    \/ MainGetLocationFails
    \/ GetIssTle
    \/ GetIssTleIncomplete
    \/ GetIssTleFails
    \/ NextVisiblePass
    \/ NextVisiblePassBadTle
    \/ NextVisiblePassNoEphemeris
    \/ Report

Spec == Init /\ [][Next]_vars

(* ------------------------- vocabulary of the claims ------------------- *)
\* next_visible_pass has returned normally.
Returned == pc \in { "searched", "done" }

\* It returned a pass: rise time and duration both present.
PassReturned == Returned /\ risetime # None /\ duration # None

\* The instant of the returned rise time and of the returned pass end.
StartTick == ts_utc(risetime[1])
EndTick == StartTick + duration[1]

\* The sky makes the satellite visible under threshold th: sunlit, and the sun
\* strictly lower than th.
VisibleUnder(e, th) == e.sunlit /\ e.sun_alt < th

\* Indices of the Rise events that are visible under the run's threshold.
VisibleRises ==
    { i \in 1..Len(events) : events[i].kind = RISE /\ VisibleUnder(events[i], twilight_threshold[1]) }

\* The location invariant of the data model, and a TLE line that is not valid.
InRange(la, lo) == la >= -90 /\ la <= 90 /\ lo >= -180 /\ lo <= 180
Malformed(line) == line # "valid"

\* Indices of the Set events strictly after instant t.
SetsAfter(t) == { j \in 1..Len(events) : events[j].kind = SET /\ events[j].t > t }

(* --------------------------------- C1 --------------------------------- *)
\* C1: when next_visible_pass returns a pass, its start is the earliest Rise
\* event that is visible, and its end is the earliest Set event strictly after
\* that Rise.
C1_FirstVisibleRiseNearestSet ==
    PassReturned =>
        \E i \in VisibleRises :
           /\ \A k \in VisibleRises : events[i].t <= events[k].t
           /\ StartTick = events[i].t
           /\ \E j \in SetsAfter(events[i].t) :
                 /\ EndTick = events[j].t
                 /\ \A m \in SetsAfter(events[i].t) : events[j].t <= events[m].t

\* A pass was returned although a later Set was also on offer.
C1_Witness ==
    /\ PassReturned
    /\ \E m \in SetsAfter(StartTick) : events[m].t > EndTick

(* --------------------------------- C2 --------------------------------- *)
\* C2: when next_visible_pass returns a pass, the duration is strictly
\* positive and the rise time lies in [now, now + 48 hours).
C2_PositiveDurationInWindow ==
    PassReturned =>
        /\ duration[1] > 0
        /\ t0[1] <= StartTick
        /\ StartTick < t0[1] + 2 * DayLen

\* A pass starting as late as the window allows, for a non-zero now.
C2_Witness ==
    /\ PassReturned
    /\ t0[1] > 0
    /\ StartTick = t0[1] + 2 * DayLen - 2

(* --------------------------------- C3 --------------------------------- *)
\* C3: if no Rise event of the window is visible, next_visible_pass returns
\* None for both rise time and duration, no error is printed, and main
\* reports that no visible pass was found.
C3_NoVisibleRiseGivesNone ==
    (Returned /\ VisibleRises = {}) =>
        /\ risetime = None
        /\ duration = None
        /\ out \in { "none", "nopass" }
        /\ pc = "done" => out = "nopass"

\* The report was printed for a window holding a Rise and a Set, none visible.
C3_Witness ==
    /\ pc = "done"
    /\ VisibleRises = {}
    /\ \E i \in 1..Len(events) : events[i].kind = RISE
    /\ \E i \in 1..Len(events) : events[i].kind = SET
    /\ out = "nopass"

(* --------------------------------- C4 --------------------------------- *)
\* C4: on the same events and sky, if the search under threshold T1 returns a
\* pass and T1 <= T2, the search under T2 returns a pass too, rising at the
\* same time or earlier.
C4_DarknessMonotone ==
    Returned =>
        \A th1 \in Thresholds, th2 \in Thresholds :
           LET r1 == PassSearch(events, th1)
               r2 == PassSearch(events, th2)
           IN  (th1 <= th2 /\ r1.risetime # None /\ r1.duration # None) =>
                   /\ r2.risetime # None
                   /\ r2.duration # None
                   /\ ts_utc(r2.risetime[1]) <= ts_utc(r1.risetime[1])

\* The easier threshold gives a strictly earlier pass than the stricter one.
C4_Witness ==
    /\ Returned
    /\ \E th1 \in Thresholds, th2 \in Thresholds :
          LET r1 == PassSearch(events, th1)
              r2 == PassSearch(events, th2)
          IN  /\ th1 < th2
              /\ r1.risetime # None /\ r1.duration # None
              /\ r2.risetime # None /\ r2.duration # None
              /\ ts_utc(r2.risetime[1]) < ts_utc(r1.risetime[1])

(* --------------------------------- C5 --------------------------------- *)
\* C5: every call of is_visible answers true exactly when the satellite is
\* sunlit and the sun altitude is strictly below the threshold.
C5_VisibleIffSunlitAndDark ==
    \A c \in visLog : c.result = (c.sunlit /\ c.sun_alt < c.threshold)

\* One search asked about a sunlit satellite with the sun exactly at the
\* threshold and about an unlit satellite under a dark sky; both gave false.
C5_Witness ==
    /\ \E c \in visLog : c.sunlit /\ c.sun_alt = c.threshold /\ ~c.result
    /\ \E c \in visLog : ~c.sunlit /\ c.sun_alt < c.threshold /\ ~c.result
    /\ \E c \in visLog : c.result

(* --------------------------------- C6 --------------------------------- *)
\* C6: a Set or Culminate event with no Rise before it is never the start of
\* a returned rise time and never the end of a returned pass.
C6_OrphanEventsSkipped ==
    \A k \in 1..Len(events) :
       (events[k].kind # RISE /\ \A i \in 1..(k - 1) : events[i].kind # RISE) =>
           /\ (Returned /\ risetime # None) => StartTick # events[k].t
           /\ PassReturned => EndTick # events[k].t

\* A pass was returned from a window that opens with a Set.
C6_Witness ==
    /\ PassReturned
    /\ Len(events) > 0
    /\ events[1].kind = SET

(* --------------------------------- C7 --------------------------------- *)
\* C7: a run whose TLE has a malformed line (truncated, or with a corrupted
\* checksum) never ends in a computed pass or in a 'no pass found' report.
C7_MalformedTleNeverReports ==
    (tle # None /\ (Malformed(tle[1]) \/ Malformed(tle[2]))) =>
        out \notin { "pass", "nopass" }

(* --------------------------------- C8 --------------------------------- *)
\* C8: for a latitude outside [-90, 90] or a longitude outside [-180, 180] the
\* run fails before any event search or visibility evaluation: no TLE fetch
\* result is searched, no event list is obtained, is_visible is never called.
C8_OutOfRangeLocationRejected ==
    (lat # None /\ ~InRange(lat[1], lon[1])) =>
        /\ ~Returned
        /\ t0 = None
        /\ events = <<>>
        /\ visLog = {}

(* --------------------------------- C9 --------------------------------- *)
\* The single linear scan C9 compares with, from index i on: in WaitingForRise
\* the first visible Rise records the start, in WaitingForSet the next Set
\* ends the pass, and the end of the sequence yields no pass.
RECURSIVE LinearScan(_, _, _, _, _)
LinearScan(ev, threshold, i, state, start) ==
    IF i > Len(ev) THEN [risetime |-> None, duration |-> None]
    ELSE IF state = "WaitingForRise"
         THEN IF ev[i].kind = RISE /\ VisibleUnder(ev[i], threshold)
              THEN LinearScan(ev, threshold, i + 1, "WaitingForSet", ev[i].t)
              ELSE LinearScan(ev, threshold, i + 1, state, start)
         ELSE IF ev[i].kind = SET
              THEN [risetime |-> Some(utc_datetime(start)), duration |-> Some(ev[i].t - start)]
              ELSE LinearScan(ev, threshold, i + 1, state, start)

\* C9: on every strictly time-ordered event sequence next_visible_pass returns
\* what the linear scan returns.
C9_SameAsLinearScan ==
    Returned =>
        LET scan == LinearScan(events, twilight_threshold[1], 1, "WaitingForRise", 0)
        IN  /\ risetime = scan.risetime
            /\ duration = scan.duration

(* --------------------------------- C10 -------------------------------- *)
\* C10: whenever next_visible_pass returns normally, rise time and duration
\* are both None or both present.
C10_BothOrNeither ==
    Returned => ((risetime = None) <=> (duration = None))

====
